---------------------------- MODULE Spec2Model ----------------------------
(***************************************************************************)
(* Reconciliation engine of clockify-scrum (src/main.py): match,           *)
(* process_entry and process_entries.                                      *)
(*                                                                         *)
(* Strings are TLA+ strings read character by character.  Hours are the    *)
(* IEEE-754 doubles of Python's float, with its division and addition      *)
(* rounded to nearest.  An entry's start is the epoch second that          *)
(* parser.parse(...).timestamp() yields.  A Python value that may be None  *)
(* is <<>> (None) or <<v>>.                                                *)
(***************************************************************************)
EXTENDS Integers, Sequences, FiniteSets, TLC

\* ------------------------------------------------------------------ bounds
\* Longest entry feed explored.
MaxEntries == 3
\* config['sprint']['start_of_sprint'] and config['sprint']['sprint_days'].
StartOfSprint == 1000
SprintDays == 2
\* Seconds per day, the literal 86400 of process_entries.
SecondsPerDay == 86400

None == <<>>
Some(v) == <<v>>

\* ----------------------------------------------------------------- strings
\* A string is handled as the sequence of its code points.  The characters
\* in use, as runs of consecutive ASCII codes with the code of the first.
AsciiRuns ==
    << <<32, " ">>,
       <<48, "0123456789:">>,
       <<65, "ABCDEFGHIJKLMNOPQRSTUVWXYZ">>,
       <<97, "abcdefghijklmnopqrstuvwxyz">> >>

\* ord(c) of a one-character string, and the code points of a string.
Ord(c) ==
    LET at == CHOOSE p \in {<<r, i>> : r \in 1..Len(AsciiRuns), i \in 1..26} :
                  /\ p[2] <= Len(AsciiRuns[p[1]][2])
                  /\ SubSeq(AsciiRuns[p[1]][2], p[2], p[2]) = c
    IN  AsciiRuns[at[1]][1] + at[2] - 1
Str(s) == [i \in 1..Len(s) |-> Ord(SubSeq(s, i, i))]

Space == Ord(" ")
UpperA == Ord("A")
UpperZ == Ord("Z")
LowerA == Ord("a")
Digit0 == Ord("0")
Digit9 == Ord("9")
MarkerH == Ord("H")
MarkerM == Ord("M")
MarkerS == Ord("S")
PrefixPT == Str("PT")
PrefixProject == Str("project:")
PrefixTask == Str("task:")

IsDigit(c) == Digit0 <= c /\ c <= Digit9

\* str.lower()
lower(s) ==
    [i \in 1..Len(s) |-> IF UpperA <= s[i] /\ s[i] <= UpperZ
                         THEN s[i] + (LowerA - UpperA) ELSE s[i]]

\* str.strip(): white space removed at both ends.
strip(s) ==
    LET kept == {i \in 1..Len(s) : s[i] # Space}
    IN  IF kept = {} THEN <<>>
        ELSE SubSeq(s, CHOOSE i \in kept : \A j \in kept : i <= j,
                       CHOOSE i \in kept : \A j \in kept : i >= j)

\* str.startswith(prefix)
startswith(s, prefix) == Len(s) >= Len(prefix) /\ SubSeq(s, 1, Len(prefix)) = prefix

\* "sub in s"
contains(s, sub) ==
    \E i \in 1..(Len(s) + 1) :
        i + Len(sub) - 1 <= Len(s) /\ SubSeq(s, i, i + Len(sub) - 1) = sub

\* Python's order on str: code point by code point, a proper prefix first.
StrLess(a, b) ==
    \E k \in 1..Len(b) :
        /\ k <= Len(a) + 1
        /\ SubSeq(a, 1, k - 1) = SubSeq(b, 1, k - 1)
        /\ \/ k = Len(a) + 1
           \/ a[k] < b[k]

\* int(text) for a run of decimal digits (text is not empty): the value of
\* its first n digits.
RECURSIVE IntPrefix(_, _)
IntPrefix(text, n) ==
    IF n = 0 THEN 0 ELSE 10 * IntPrefix(text, n - 1) + (text[n] - Digit0)
int(text) == IntPrefix(text, Len(text))

\* ----------------------------------------------------------------- doubles
\* A non-negative IEEE-754 double: zero, or mantissa * 2^e with a mantissa
\* of 53 bits held as hi * 2^27 + lo (hi of 26 bits, the top one set, lo of
\* 27 bits).
Limb == 134217728
HalfLimb == 67108864
FZero == [hi |-> 0, lo |-> 0, e |-> 0]

\* The powers of two up to a limb.
Pow2 == [n \in 0..27 |-> 2^n]

\* The next double above x.
Up(x) ==
    IF x.lo + 1 < Limb THEN [x EXCEPT !.lo = @ + 1]
    ELSE IF x.hi + 1 < HalfLimb THEN [x EXCEPT !.hi = @ + 1, !.lo = 0]
    ELSE [hi |-> HalfLimb \div 2, lo |-> 0, e |-> x.e + 1]

\* Round to nearest, ties to even: guard is the first bit dropped, rest
\* tells whether any bit after it is set.
Round(x, guard, rest) ==
    IF guard /\ (rest \/ x.lo % 2 = 1) THEN Up(x) ELSE x

\* The quotient n / d of two integers, n >= 0 and d > 0, correctly rounded:
\* long division, one bit a step, until the quotient has 54 bits; q is
\* hi * 2^27 + lo, rem the remainder and t the number of bits after the
\* binary point.
RECURSIVE DivBits(_, _, _, _, _)
DivBits(hi, lo, rem, t, d) ==
    IF hi >= HalfLimb
    THEN Round([hi |-> hi \div 2, lo |-> (hi % 2) * HalfLimb + lo \div 2, e |-> 1 - t],
               lo % 2 = 1, rem # 0)
    ELSE DivBits(2 * hi + (2 * lo + (IF 2 * rem >= d THEN 1 ELSE 0)) \div Limb,
                 (2 * lo + (IF 2 * rem >= d THEN 1 ELSE 0)) % Limb,
                 IF 2 * rem >= d THEN 2 * rem - d ELSE 2 * rem,
                 t + 1, d)

FDiv(n, d) == IF n = 0 THEN FZero ELSE DivBits(0, n \div d, n % d, 0, d)

\* The sum of big and the mantissa h * 2^27 + l of the smaller operand
\* brought to the exponent of big; x holds the 27 bits shifted out and
\* sticky tells whether a bit below them is set.
AddAligned(big, h, l, x, sticky) ==
    IF big.hi + h + (big.lo + l) \div Limb >= HalfLimb
    THEN Round([hi |-> (big.hi + h + (big.lo + l) \div Limb) \div 2,
                lo |-> ((big.hi + h + (big.lo + l) \div Limb) % 2) * HalfLimb
                         + ((big.lo + l) % Limb) \div 2,
                e |-> big.e + 1],
               (big.lo + l) % 2 = 1,
               x # 0 \/ sticky)
    ELSE Round([hi |-> big.hi + h + (big.lo + l) \div Limb,
                lo |-> (big.lo + l) % Limb,
                e |-> big.e],
               x >= HalfLimb,
               x % HalfLimb # 0 \/ sticky)

\* The mantissa h * 2^27 + l, with x and sticky below it, r bits (r < 27)
\* to the right.
ShiftBits(big, h, l, x, sticky, r) ==
    AddAligned(big,
               h \div Pow2[r],
               l \div Pow2[r] + (h % Pow2[r]) * Pow2[27 - r],
               x \div Pow2[r] + (l % Pow2[r]) * Pow2[27 - r],
               sticky \/ x % Pow2[r] # 0)

\* The smaller operand d bits to the right: whole limbs first.
ShiftLimbs(big, small, d) ==
    IF d < 27 THEN ShiftBits(big, small.hi, small.lo, 0, FALSE, d)
    ELSE IF d < 54 THEN ShiftBits(big, 0, small.hi, small.lo, FALSE, d - 27)
    ELSE ShiftBits(big, 0, 0, small.hi, small.lo # 0, d - 54)

\* x + y on doubles.
FAdd(x, y) ==
    IF x = FZero THEN y
    ELSE IF y = FZero THEN x
    ELSE IF x.e >= y.e
    THEN (IF x.e - y.e > 56 THEN x ELSE ShiftLimbs(x, y, x.e - y.e))
    ELSE (IF y.e - x.e > 56 THEN y ELSE ShiftLimbs(y, x, y.e - x.e))

\* x > 0 on doubles that are never negative.
FPositive(x) == x # FZero

\* ------------------------------------------------------------------ inputs
\* The ProjectLookup read_clockify builds: non-archived projects only.
Projects == [p \in {"p1", "p2"} |-> IF p = "p1" THEN "Alpha" ELSE "Beta"]

Entry(id, start, duration, projectId, description) ==
    [id |-> id, start |-> start, duration |-> duration,
     projectId |-> projectId, description |-> description]

\* end_of_sprint = start_of_sprint + sprint_days * 86400
end_of_sprint == StartOfSprint + SprintDays * SecondsPerDay

\* Time entries of the feed; "p9" is a project the lookup does not hold.
EntryPool ==
    { Entry("a", StartOfSprint, Some("PT1H30M"), "p1", "Design AB"),
      Entry("b", StartOfSprint + 60, Some("PT45S"), "p2", "Standup"),
      Entry("c", end_of_sprint, Some("PT2H"), "p1", "ab"),
      Entry("d", StartOfSprint - 1, Some("PT10H"), "p1", "ab"),
      Entry("e", end_of_sprint - 1, None, "p9", "ab"),
      Entry("f", StartOfSprint + 1, Some("PT1H"), "p9", "ab"),
      Entry("g", StartOfSprint + 2, Some("PT1H30Mx"), "p1", "zz"),
      Entry("h", StartOfSprint + 3, Some("1H"), "p1", "ab"),
      Entry("i", StartOfSprint + 4, Some("PTH"), "p1", "ab"),
      Entry("k", StartOfSprint + 6, Some("PT"), "p1", "ab"),
      Entry("l", StartOfSprint + 7, Some("PT1H10M"), "p1", "Design AB") }

\* Planned-task lists as the spreadsheet holds them (Description column).
TaskLists ==
    { <<>>,
      <<"task:ab">>,
      <<"project:Alpha">>,
      <<"sprint">>,
      <<"project:Alpha", "task:ab">>,
      <<"project:alpha", "Task:AB ">>,
      <<"sprint", "task:stand", "project:alpha">>,
      <<" task:zz", "project:beta", "task:ab">> }

Feeds == UNION { [1..n -> EntryPool] : n \in 0..MaxEntries }

\* The strings of the inputs, and the code points of each.
Rules == UNION { {rows[i] : i \in 1..Len(rows)} : rows \in TaskLists }
ProjectNames == {Projects[p] : p \in DOMAIN Projects}
Descriptions == {e.description : e \in EntryPool}
Durations == {e.duration[1] : e \in {x \in EntryPool : x.duration # None}}
Texts == Rules \cup ProjectNames \cup Descriptions \cup Durations
Codes == [s \in Texts |-> Str(s)]

\* ------------------------------------------------------------------- match
\* target_task = str(target_task).strip().lower()
RuleText(target_task) == lower(strip(Codes[target_task]))

\* The kind match() gives a rule text, by its prefix.
RuleKind(target_task) ==
    IF startswith(RuleText(target_task), PrefixProject) THEN "project"
    ELSE IF startswith(RuleText(target_task), PrefixTask) THEN "task"
    ELSE "unknown"

\* The branches of match() on the stripped, lower-cased rule text t.
\* "TypeError" is what the statement raise '<str>' of the last one produces.
MatchRule(done_project, done_task, t) ==
    IF startswith(t, PrefixProject)
    THEN [err |-> "none",
          val |-> lower(Codes[done_project]) = strip(SubSeq(t, 9, Len(t)))]
    ELSE IF startswith(t, PrefixTask)
    THEN [err |-> "none",
          val |-> contains(lower(Codes[done_task]), strip(SubSeq(t, 6, Len(t))))]
    ELSE [err |-> "TypeError", val |-> FALSE]

\* match() on every project name, description and rule text of the inputs,
\* worked out once.
MatchTable ==
    [n \in ProjectNames, d \in Descriptions, r \in Rules |->
        MatchRule(n, d, RuleText(r))]

match(done_project, done_task, target_task) ==
    MatchTable[done_project, done_task, target_task]

\* ----------------------------------------------------------- process_entry
\* End of the longest run of digits of s that starts at i (first position
\* after it): the greedy \d* of the pattern.
DigitsEnd(s, i) ==
    CHOOSE j \in i..(Len(s) + 1) :
        /\ \A k \in i..(j - 1) : IsDigit(s[k])
        /\ j = Len(s) + 1 \/ ~IsDigit(s[j])

\* One optional group (\d*X)? tried at position i, its digits ending
\* before j: set with its digits when the marker follows them, else unset
\* and no character consumed.
GroupAt(s, i, j, marker) ==
    IF j <= Len(s) /\ s[j] = marker
    THEN [set |-> TRUE, digits |-> SubSeq(s, i, j - 1), next |-> j + 1]
    ELSE [set |-> FALSE, digits |-> <<>>, next |-> i]

Markers == <<MarkerH, MarkerM, MarkerS>>

\* Group k of re.match(r"PT(\d*H)?(\d*M)?(\d*S)?", duration), for a text
\* that begins with PT: tried where group k-1 ended.  The match is anchored
\* at the start only, whatever follows the last group is not looked at.
RECURSIVE MatchGroup(_, _)
MatchGroup(duration, k) ==
    GroupAt(duration,
            IF k = 1 THEN 3 ELSE MatchGroup(duration, k - 1).next,
            DigitsEnd(duration, IF k = 1 THEN 3 ELSE MatchGroup(duration, k - 1).next),
            Markers[k])

\* if r.group(k): elapsed += int(r.group(k)[:-1]) / <60, 3600>; the hours
\* are added undivided, an int that the sum with a float converts exactly.
AddGroup(elapsed, g, unit) ==
    IF g.set THEN FAdd(elapsed, FDiv(int(g.digits), unit)) ELSE elapsed

\* Lines 59-69 on the code points of the duration: r.group(1) of a None
\* raises AttributeError and int('') raises ValueError.
ElapsedOf(duration) ==
    IF ~startswith(duration, PrefixPT) THEN [err |-> "AttributeError", val |-> FZero]
    ELSE IF \E k \in 1..3 : LET g == MatchGroup(duration, k)
                            IN  g.set /\ g.digits = <<>>
    THEN [err |-> "ValueError", val |-> FZero]
    ELSE [err |-> "none",
          val |-> AddGroup(AddGroup(AddGroup(FZero, MatchGroup(duration, 1), 1),
                                    MatchGroup(duration, 2), 60),
                           MatchGroup(duration, 3), 3600)]

\* Lines 59-69 on every duration text of the inputs, worked out once.
ElapsedTable == [d \in Durations |-> ElapsedOf(Codes[d])]

Elapsed(duration) == ElapsedTable[duration]

\* projects[done['projectId']]
ProjectName(projects, projectId) ==
    IF projectId \in DOMAIN projects
    THEN [err |-> "none", name |-> projects[projectId]]
    ELSE [err |-> "KeyError", name |-> ""]

\* Lines 71-73 once match() has returned or raised.
AfterMatch(el, mt) ==
    IF mt.err # "none" THEN [err |-> mt.err, val |-> FZero]
    ELSE IF mt.val THEN el
    ELSE [err |-> "none", val |-> FZero]

\* A lookup that takes an absent project for an entry that matches nothing.
AfterLookupLenient(done, task, el, p) ==
    IF p.err # "none" THEN [err |-> "none", val |-> FZero]
    ELSE AfterMatch(el, match(p.name, done.description, task[1]))

\* Line 71 once projects[done['projectId']] is evaluated: the argument is
\* looked up before match() is called, whatever the rule.
AfterLookup(done, task, el, p) ==
    IF p.err # "none" THEN [err |-> p.err, val |-> FZero]
    ELSE AfterMatch(el, match(p.name, done.description, task[1]))

\* Lines 71-73 once the duration is parsed: (task is None) or match(...).
AfterParse(done, projects, task, el) ==
    IF el.err # "none" \/ task = None THEN el
    ELSE AfterLookup(done, task, el, ProjectName(projects, done.projectId))

\* process_entry(done, projects, task): task is None or Some(Description).
process_entry(done, projects, task) ==
    IF done.duration = None THEN [err |-> "none", val |-> FZero]
    ELSE AfterParse(done, projects, task, Elapsed(done.duration[1]))

\* --------------------------------------------------------- process_entries
\* A window closed at its end.
InWindowClosed(date) ==
    StartOfSprint <= date /\ date <= StartOfSprint + SprintDays * SecondsPerDay

\* start_of_sprint <= date < end_of_sprint
InWindow(date) == StartOfSprint <= date /\ date < end_of_sprint

\* No memory of the identifiers, and a memory of the last one only.
NotProcessedEver(id, processed_ids) == TRUE
NotProcessedLast(id, processed_ids) ==
    IF processed_ids = <<>> THEN TRUE ELSE processed_ids[Len(processed_ids)] # id

\* entry['id'] not in processed_ids
NotProcessed(id, processed_ids) ==
    \A k \in 1..Len(processed_ids) : processed_ids[k] # id

\* The condition of the if statement that guards the loop body.
Eligible(entry, processed_ids) ==
    InWindow(entry.start) /\ NotProcessed(entry.id, processed_ids)

\* sort_values('Description', ascending=False).reset_index(drop=True): the
\* rows in descending order of the rule text.  A planned task is modelled
\* by its Description alone, so rows with equal text are interchangeable.
RECURSIVE InsertDescending(_, _)
InsertDescending(d, sorted) ==
    IF sorted = <<>> THEN <<d>>
    ELSE IF StrLess(Codes[Head(sorted)], Codes[d]) THEN <<d>> \o sorted
    ELSE <<Head(sorted)>> \o InsertDescending(d, Tail(sorted))
RECURSIVE sort_values(_)
sort_values(rows) ==
    IF rows = <<>> THEN <<>>
    ELSE InsertDescending(Head(rows), sort_values(Tail(rows)))

\* The for loop over tasks.iterrows(), from row i on.
RECURSIVE ForTasks(_, _, _, _, _)

\* A loop over the tasks that goes on after a credit.
TaskStepNoBreak(entry, projects, tasks, i, results, r) ==
    IF r.err # "none"
    THEN [err |-> r.err, results |-> results, entry_matched |-> FALSE]
    ELSE [ForTasks(entry, projects, tasks, i + 1, [results EXCEPT ![i] = FAdd(@, r.val)])
            EXCEPT !.entry_matched = @ \/ FPositive(r.val)]

\* Lines 102-105 for row i, r being what process_entry gave for it:
\* results[i][0] += elapsed_time, and break when elapsed_time > 0.
TaskStep(entry, projects, tasks, i, results, r) ==
    IF r.err # "none"
    THEN [err |-> r.err, results |-> results, entry_matched |-> FALSE]
    ELSE IF FPositive(r.val)
    THEN [err |-> "none", results |-> [results EXCEPT ![i] = FAdd(@, r.val)],
          entry_matched |-> TRUE]
    ELSE ForTasks(entry, projects, tasks, i + 1, [results EXCEPT ![i] = FAdd(@, r.val)])

ForTasks(entry, projects, tasks, i, results) ==
    IF i > Len(tasks)
    THEN [err |-> "none", results |-> results, entry_matched |-> FALSE]
    ELSE TaskStep(entry, projects, tasks, i, results,
                  process_entry(entry, projects, Some(tasks[i])))

\* An off-plan accumulator that takes the time of every entry.
OffScheduleAlways(entry, projects, entry_matched) ==
    process_entry(entry, projects, None)

\* if not entry_matched: off_schedule_spent += process_entry(done=entry, ...)
OffSchedule(entry, projects, entry_matched) ==
    IF entry_matched THEN [err |-> "none", val |-> FZero]
    ELSE process_entry(entry, projects, None)

\* Lines 106-107, t being the outcome of the loop over the tasks and o the
\* off-plan time.
AfterOffSchedule(results, off, t, o) ==
    IF o.err # "none"
    THEN [err |-> o.err, results |-> results, off |-> off, entry_matched |-> FALSE]
    ELSE [err |-> "none", results |-> t.results, off |-> FAdd(off, o.val),
          entry_matched |-> t.entry_matched]

AfterTasks(entry, projects, results, off, t) ==
    IF t.err # "none"
    THEN [err |-> t.err, results |-> results, off |-> off, entry_matched |-> FALSE]
    ELSE AfterOffSchedule(results, off, t, OffSchedule(entry, projects, t.entry_matched))

\* The body of "for entry in entries" for an eligible entry (lines 98-107).
LoopBody(entry, projects, tasks, results, off) ==
    AfterTasks(entry, projects, results, off,
               ForTasks(entry, projects, tasks, 1, results))

\* process_entries as a whole, from entry i of the feed on: what the run
\* returns, or abort when an exception leaves the function.
RECURSIVE RunFrom(_, _, _, _, _, _, _)

RunStep(feed, i, projects, tasks, processed_ids, b) ==
    IF b.err # "none" THEN [abort |-> TRUE, results |-> <<>>, off |-> FZero]
    ELSE RunFrom(feed, i + 1, projects, tasks,
                 Append(processed_ids, feed[i].id), b.results, b.off)

RunFrom(feed, i, projects, tasks, processed_ids, results, off) ==
    IF i > Len(feed) THEN [abort |-> FALSE, results |-> results, off |-> off]
    ELSE IF ~Eligible(feed[i], processed_ids)
    THEN RunFrom(feed, i + 1, projects, tasks, processed_ids, results, off)
    ELSE RunStep(feed, i, projects, tasks, processed_ids,
                 LoopBody(feed[i], projects, tasks, results, off))

process_entries(feed, projects, tasks) ==
    RunFrom(feed, 1, projects, tasks, <<>>, [i \in 1..Len(tasks) |-> FZero], FZero)

\* ------------------------------------------------------------------- state
VARIABLES tasks, projects, entries, pos, processed_ids, results,
          off_schedule_spent, pc, error

vars == <<tasks, projects, entries, pos, processed_ids, results,
          off_schedule_spent, pc, error>>

Init ==
    /\ \E rows \in TaskLists : tasks = sort_values(rows)
    /\ projects = Projects
    /\ entries \in Feeds
    /\ pos = 1
    /\ processed_ids = <<>>
    /\ results = [i \in 1..Len(tasks) |-> FZero]
    /\ off_schedule_spent = FZero
    /\ pc = "loop"
    /\ error = "none"

\* The loop is at entries[pos].
AtEntry == pc = "loop" /\ pos <= Len(entries)

\* The loop body has run to its end with outcome b.
Completed(b) ==
    /\ b.err = "none"
    /\ results' = b.results
    /\ off_schedule_spent' = b.off
    /\ processed_ids' = Append(processed_ids, entries[pos].id)
    /\ pos' = pos + 1
    /\ UNCHANGED <<tasks, projects, entries, pc, error>>

\* The loop body has raised: the exception leaves process_entries, which
\* returns nothing.  The identifier was appended before (line 99).
Raised(b) ==
    /\ b.err # "none"
    /\ error' = b.err
    /\ pc' = "error"
    /\ processed_ids' = Append(processed_ids, entries[pos].id)
    /\ UNCHANGED <<tasks, projects, entries, pos, results, off_schedule_spent>>

\* An entry outside the window, or with an identifier already processed.
Skip ==
    /\ AtEntry
    /\ ~Eligible(entries[pos], processed_ids)
    /\ pos' = pos + 1
    /\ UNCHANGED <<tasks, projects, entries, processed_ids, results,
                   off_schedule_spent, pc, error>>

\* An eligible entry: some task takes it, or none does and its time goes
\* to off_schedule_spent.
Process ==
    /\ AtEntry
    /\ Eligible(entries[pos], processed_ids)
    /\ Completed(LoopBody(entries[pos], projects, tasks, results, off_schedule_spent))

\* An eligible entry whose processing raises.
Abort ==
    /\ AtEntry
    /\ Eligible(entries[pos], processed_ids)
    /\ Raised(LoopBody(entries[pos], projects, tasks, results, off_schedule_spent))

\* The feed is exhausted: the off-plan triple is appended and the results
\* are returned.
Finish ==
    /\ pc = "loop"
    /\ pos > Len(entries)
    /\ pc' = "done"
    /\ UNCHANGED <<tasks, projects, entries, pos, processed_ids, results,
                   off_schedule_spent, error>>

Next == Skip \/ Process \/ Abort \/ Finish

Spec == Init /\ [][Next]_vars

\* ------------------------------------------------ vocabulary of the claims
\* The entry the loop is at.
cur == entries[pos]

\* The window as the specification states it: [sprint_start, sprint_end).
InSprint(e) ==
    StartOfSprint <= e.start /\ e.start < StartOfSprint + SprintDays * SecondsPerDay

\* Entry k of the feed is the first occurrence of its identifier.
FirstSeen(k) == \A j \in 1..(k - 1) : entries[j].id # entries[k].id

\* Entry k of the feed is in-window and seen for the first time.
CaseEntry(k) == InSprint(entries[k]) /\ FirstSeen(k)

\* The elapsed hours of an entry; zero for an entry in progress.
ElapsedHours(e) == IF e.duration = None THEN FZero ELSE Elapsed(e.duration[1]).val

\* The rule of a task matches the entry: a task rule by the description, a
\* project rule by the name the lookup gives the entry's project.
RuleMatches(e, rule) ==
    \E n \in ProjectNames :
        /\ \/ RuleKind(rule) = "task"
           \/ /\ RuleKind(rule) = "project"
              /\ e.projectId \in DOMAIN projects
              /\ n = projects[e.projectId]
        /\ match(n, e.description, rule).val

\* The first task, in the order of iteration, whose rule matches (0: none).
FirstMatch(e) ==
    IF \E i \in 1..Len(tasks) : RuleMatches(e, tasks[i])
    THEN CHOOSE i \in 1..Len(tasks) :
             /\ RuleMatches(e, tasks[i])
             /\ \A j \in 1..(i - 1) : ~RuleMatches(e, tasks[j])
    ELSE 0

\* The tasks whose accumulator a step changes.
Credited == {i \in 1..Len(tasks) : results'[i] # results[i]}

\* A step adds x once, to the accumulator of task target or, target being
\* 0, to the off-plan accumulator, and leaves every other accumulator as it
\* is.
AddedTo(target, x) ==
    /\ off_schedule_spent' = IF target = 0 THEN FAdd(off_schedule_spent, x)
                             ELSE off_schedule_spent
    /\ results' = [i \in 1..Len(tasks) |->
                      IF i = target THEN FAdd(results[i], x) ELSE results[i]]

\* Some accumulator holds exactly x.
Holds(x) ==
    off_schedule_spent = x \/ \E i \in 1..Len(tasks) : results[i] = x

\* A duration text conforms to PT[<digits>H][<digits>M][<digits>S]: the
\* three groups take the whole text and every marker has its digits.
Conforms(d) ==
    /\ startswith(Codes[d], PrefixPT)
    /\ MatchGroup(Codes[d], 3).next = Len(Codes[d]) + 1
    /\ \A k \in 1..3 : MatchGroup(Codes[d], k).set => MatchGroup(Codes[d], k).digits # <<>>

\* y is x or one of the n doubles next above x.
RECURSIVE WithinAbove(_, _, _)
WithinAbove(x, y, n) == x = y \/ (n > 0 /\ WithinAbove(Up(x), y, n - 1))

\* Two doubles at most n units in the last place apart.
Near(x, y, n) ==
    IF x = FZero \/ y = FZero THEN x = y
    ELSE WithinAbove(x, y, n) \/ WithinAbove(y, x, n)

\* What the run has come to: an abort, or the spent values returned.
Outcome ==
    IF pc = "error" THEN [abort |-> TRUE, results |-> <<>>, off |-> FZero]
    ELSE [abort |-> FALSE, results |-> results, off |-> off_schedule_spent]

\* The feed with its entries in the order q.
Permuted(q) == [i \in 1..Len(entries) |-> entries[q[i]]]

\* Two outcomes alike up to the rounding of the additions: both aborts, or
\* both returns of values, task by task and off plan, at most n units in the
\* last place apart.
SameUpToRounding(o1, o2, n) ==
    /\ o1.abort = o2.abort
    /\ Len(o1.results) = Len(o2.results)
    /\ \A i \in 1..Len(o1.results) : Near(o1.results[i], o2.results[i], n)
    /\ Near(o1.off, o2.off, n)

\* ------------------------------------------------------------------ claims
\* C1 (first match wins): a step on an in-window, first-seen entry changes
\* the accumulator of at most one task, by adding the entry's elapsed
\* hours, and that task is the first in the order of iteration whose rule
\* matches the entry; every other accumulator of a task keeps its value.
C1_FirstMatchWins ==
    [][ (AtEntry /\ CaseEntry(pos) /\ pos' = pos + 1) =>
            /\ Cardinality(Credited) <= 1
            /\ \A i \in 1..Len(tasks) :
                  IF i \in Credited
                  THEN /\ results'[i] = FAdd(results[i], ElapsedHours(cur))
                       /\ i = FirstMatch(cur)
                  ELSE results'[i] = results[i] ]_vars

\* An entry that matches two tasks has been credited to the first alone.
C1_Witness ==
    /\ pc # "error"
    /\ \E k \in 1..(pos - 1) : \E i, j \in 1..Len(tasks) :
          /\ CaseEntry(k) /\ i < j
          /\ RuleMatches(entries[k], tasks[i]) /\ RuleMatches(entries[k], tasks[j])
          /\ results[i] = ElapsedHours(entries[k]) /\ FPositive(results[i])
          /\ results[j] = FZero

\* Every task whose rule match() reads as a task rule comes before every
\* task whose rule it reads as a project rule.
TaskRulesFirst ==
    \A i, j \in 1..Len(tasks) :
        RuleKind(tasks[i]) = "task" /\ RuleKind(tasks[j]) = "project" => i < j

\* C2 (task rules take precedence over project rules): when an in-window,
\* first-seen entry with time to credit matches both a task-rule task and a
\* project-rule task, the sorted list has every task rule before every
\* project rule and the entry is credited to a task-rule task only.
C2_TaskRulePrecedence ==
    [][ ( /\ AtEntry /\ CaseEntry(pos) /\ pos' = pos + 1
          /\ FPositive(ElapsedHours(cur))
          /\ \E i \in 1..Len(tasks) :
                RuleKind(tasks[i]) = "task" /\ RuleMatches(cur, tasks[i])
          /\ \E j \in 1..Len(tasks) :
                RuleKind(tasks[j]) = "project" /\ RuleMatches(cur, tasks[j]) ) =>
            /\ TaskRulesFirst
            /\ Cardinality(Credited) = 1
            /\ \A i \in Credited : RuleKind(tasks[i]) = "task" ]_vars

\* C3 (deduplication): a later occurrence of an identifier leaves every
\* accumulator unchanged, and the first occurrence of an in-window entry
\* adds the entry's elapsed hours exactly once: to one accumulator, of a
\* task or off plan, every other one keeping its value.
C3_Deduplication ==
    [][ /\ (AtEntry /\ ~FirstSeen(pos)) =>
              /\ results' = results
              /\ off_schedule_spent' = off_schedule_spent
        /\ (AtEntry /\ CaseEntry(pos) /\ pos' = pos + 1) =>
              \E target \in 0..Len(tasks) : AddedTo(target, ElapsedHours(cur)) ]_vars

\* An in-window entry with time has been met twice, and an accumulator
\* holds its time once.
C3_Witness ==
    /\ pc # "error"
    /\ \E j, k \in 1..(pos - 1) :
          /\ j < k /\ entries[j].id = entries[k].id
          /\ InSprint(entries[j]) /\ FPositive(ElapsedHours(entries[j]))
          /\ Holds(ElapsedHours(entries[j]))

\* C4 (half-open window): an entry outside [sprint_start, sprint_end), the
\* one starting exactly at sprint_end included, changes no accumulator and
\* is not marked processed; a first-seen entry starting exactly at
\* sprint_start is taken as eligible: its identifier is marked processed
\* and, unless its processing raises, its time is added to an accumulator.
C4_HalfOpenWindow ==
    [][ AtEntry =>
          /\ ~InSprint(cur) =>
                /\ results' = results
                /\ off_schedule_spent' = off_schedule_spent
                /\ processed_ids' = processed_ids
                /\ pc' = "loop"
          /\ (cur.start = StartOfSprint /\ FirstSeen(pos)) =>
                /\ processed_ids' = Append(processed_ids, cur.id)
                /\ \/ pc' = "error"
                   \/ \E target \in 0..Len(tasks) : AddedTo(target, ElapsedHours(cur)) ]_vars

\* An entry starting at sprint_start has been counted and one starting at
\* sprint_end has been passed over.
C4_Witness ==
    /\ pc # "error"
    /\ \E j, k \in 1..(pos - 1) :
          /\ entries[j].start = StartOfSprint
          /\ FPositive(ElapsedHours(entries[j]))
          /\ entries[k].start = StartOfSprint + SprintDays * SecondsPerDay
          /\ Holds(ElapsedHours(entries[j]))

\* C5 (off-plan bucketing): an in-window, first-seen entry that matches no
\* task's rule adds its whole elapsed time to the off-plan accumulator and
\* nothing to any task; and whenever the off-plan accumulator grows, no
\* task has been credited for the entry.
C5_OffPlanBucketing ==
    [][ (AtEntry /\ CaseEntry(pos) /\ pos' = pos + 1) =>
          /\ FirstMatch(cur) = 0 => AddedTo(0, ElapsedHours(cur))
          /\ off_schedule_spent' # off_schedule_spent => results' = results ]_vars

\* An entry with time that no task of a non-empty list matches has gone off
\* plan.
C5_Witness ==
    /\ pc # "error"
    /\ Len(tasks) > 0
    /\ \E k \in 1..(pos - 1) :
          /\ CaseEntry(k) /\ FirstMatch(entries[k]) = 0
          /\ FPositive(ElapsedHours(entries[k]))
          /\ off_schedule_spent = ElapsedHours(entries[k])

\* C6 (UnknownRuleKind is fail-fast): a run whose task list holds a rule
\* with neither prefix never returns a result.
C6_UnknownRuleFailFast ==
    (\E i \in 1..Len(tasks) : RuleKind(tasks[i]) = "unknown") => pc # "done"

\* The matching pass comes to a project-rule task for the entry: no task
\* before it takes the entry's time.
ReachesProjectRule(e) ==
    \E i \in 1..Len(tasks) :
        /\ RuleKind(tasks[i]) = "project"
        /\ \A j \in 1..(i - 1) : ~(RuleMatches(e, tasks[j]) /\ FPositive(ElapsedHours(e)))

\* C7 as stated (UnresolvedProject is fatal): a step on an in-window,
\* first-seen entry whose project is absent from the lookup aborts the run
\* whenever the pass comes to a project-rule task, whatever the duration.
C7_UnresolvedProjectFatal ==
    [][ ( /\ AtEntry /\ CaseEntry(pos)
          /\ cur.projectId \notin DOMAIN projects
          /\ ReachesProjectRule(cur) ) => pc' = "error" ]_vars

\* C7 as amended: the same for an entry whose duration is not null.
C7_UnresolvedProjectFatalUnlessRunning ==
    [][ ( /\ AtEntry /\ CaseEntry(pos)
          /\ cur.projectId \notin DOMAIN projects
          /\ cur.duration # None
          /\ ReachesProjectRule(cur) ) => pc' = "error" ]_vars

\* The run has aborted on the lookup of an absent project, at a
\* project-rule task.
C7_Witness ==
    /\ pc = "error" /\ error = "KeyError"
    /\ cur.projectId \notin DOMAIN projects
    /\ cur.duration # None
    /\ RuleKind(tasks[1]) = "project"

\* C8 (MalformedDuration is a hard error): a step on an in-window,
\* first-seen entry whose duration is present and does not conform to the
\* grammar aborts the run.
C8_MalformedDurationFatal ==
    [][ ( /\ AtEntry /\ CaseEntry(pos)
          /\ cur.duration # None
          /\ ~Conforms(cur.duration[1]) ) => pc' = "error" ]_vars

\* C9 as stated (entry order is irrelevant): when the run has ended, every
\* permutation of its feed gives process_entries the same outcome: an abort
\* for both, or identical spent values per task and off plan.
C9_OrderIrrelevant ==
    pc \in {"done", "error"} =>
        \A q \in Permutations(1..Len(entries)) :
            process_entries(Permuted(q), projects, tasks) = Outcome

\* C9 as amended: when the run has ended, every permutation of its feed
\* makes process_entries abort when the run aborted and return when it
\* returned, with values per task and off plan that are those of the run up
\* to the rounding of the additions: at most two units in the last place
\* apart for each entry of the feed.
C9_OrderIrrelevantUpToRounding ==
    pc \in {"done", "error"} =>
        \A q \in Permutations(1..Len(entries)) :
            SameUpToRounding(process_entries(Permuted(q), projects, tasks),
                             Outcome, 2 * Len(entries))

\* A run has returned values of which another order of its feed returns
\* neighbours.
C9_Witness ==
    /\ pc = "done"
    /\ \E q \in Permutations(1..Len(entries)) :
          process_entries(Permuted(q), projects, tasks) # Outcome

\* C10 (only project rules demand the project name): a step on an
\* in-window, first-seen entry whose project is absent from the lookup,
\* with a duration that is null or well formed and every task carrying a
\* task rule, raises nothing and credits the entry to the first task whose
\* rule matches, or off plan when none does.
C10_TaskRulesNeedNoProject ==
    [][ ( /\ AtEntry /\ CaseEntry(pos)
          /\ cur.projectId \notin DOMAIN projects
          /\ cur.duration = None \/ Conforms(cur.duration[1])
          /\ \A i \in 1..Len(tasks) : RuleKind(tasks[i]) = "task" ) =>
            /\ pc' = "loop" /\ pos' = pos + 1
            /\ AddedTo(IF FPositive(ElapsedHours(cur)) THEN FirstMatch(cur) ELSE 0,
                       ElapsedHours(cur)) ]_vars

=============================================================================
